---- MODULE Spec2Model ----
(***************************************************************************)
(* Model of src/dashboard.py: the status aggregation of get_status() and   *)
(* the life cycle of main() (serve loop and the SIGTERM/SIGINT handler).   *)
(*                                                                         *)
(* Text is modelled as a sequence of atoms.  An atom is either a single    *)
(* character ("u", "n", "i", "x", "/", the quote, the blank, the newline)  *)
(* or a run of characters none of the scanned patterns can match inside    *)
(* ("tmp", "api.sock", the metric name).  JSON objects are functions whose *)
(* DOMAIN holds exactly the keys that are present; JSON arrays are         *)
(* sequences.  Python's None is the empty tuple and a value v that may be  *)
(* None is carried as <<v>>.                                               *)
(***************************************************************************)
EXTENDS Integers, Sequences, FiniteSets, TLC

VARIABLES
    admin,        \* what the admin API would serve: routes, upstreams, tls, dns, metrics
    metric_lines, \* the samples the metrics text of admin was rendered from
    failed,       \* the admin API paths whose fetch fails, times out or is not 200
    fs,           \* the filesystem paths that exist
    pc,           \* get_status: "idle", "returned" or "raised"
    health_map,   \* get_status local, line 86
    upstream_map, \* get_status local, line 97
    socks,        \* get_status local `sock` per route, line 107
    result,       \* the value get_status returned
    main_pc,      \* main(): where the main thread is
    frames,       \* the stack of running shutdown(sig, frame) handlers, innermost last
    pending_sig,  \* signals delivered and not yet run
    shutdown_request, \* BaseServer.__shutdown_request
    is_shut_down, \* BaseServer.__is_shut_down (a threading.Event)
    route_registered, \* the proxy holds the route ROUTE_ID
    sock_bound,   \* the socket file at SOCK_PATH exists
    requests_left \* inbound connections the clients will still make

statusVars == <<admin, metric_lines, failed, fs, pc, health_map, upstream_map, socks, result>>
lifeVars == <<main_pc, frames, pending_sig, shutdown_request, is_shut_down,
              route_registered, sock_bound, requests_left>>
vars == <<statusVars, lifeVars>>

----------------------------------------------------------------------------
(* Bounds of the model *)

MaxRoutes == 2     \* routes in the route table
MaxHandlers == 2   \* handlers of one route
MaxEntries == 2    \* upstream entries of one handler
MaxUpstreams == 2  \* records of the upstream statistics
MaxSamples == 2    \* lines of a metrics text made of health samples only
MaxLines == 3      \* lines of a metrics text of any kind
MaxPolicies == 2   \* TLS automation policies
MaxChunks == 4     \* pieces a dial string is put together from
MaxRequests == 2   \* inbound connections during one run of main
MaxSignals == 2    \* signals delivered during one run of main

----------------------------------------------------------------------------
(* Python values *)

None == <<>>
Some(v) == <<v>>
EmptyDict == [k \in {} |-> k]
EmptyStr == <<>>

\* dict.get(k, default)
DictGet(d, k, default) == IF k \in DOMAIN d THEN d[k] ELSE default

\* dict.get(k): None when the key is absent
DictGetOpt(d, k) == IF k \in DOMAIN d THEN Some(d[k]) ELSE None

\* d[k] = v
DictPut(d, k, v) == [x \in DOMAIN d \cup {k} |-> IF x = k THEN v ELSE d[x]]

\* `x or default` for x a list, a dict, a str or None: the falsy values are
\* None and the empty container
PyOr(opt, default) ==
    IF Len(opt) = 0 THEN default
    ELSE IF DOMAIN opt[1] = {} THEN default
    ELSE opt[1]

----------------------------------------------------------------------------
(* Text *)

StartsWith(s, p) == Len(s) >= Len(p) /\ SubSeq(s, 1, Len(p)) = p

\* the tail of s from position i on
From(s, i) == SubSeq(s, i, Len(s))

\* the position of the first occurrence of p (non-empty) in s at or after i, 0 if none
RECURSIVE Find(_, _, _)
Find(s, p, i) ==
    IF i + Len(p) - 1 > Len(s) THEN 0
    ELSE IF SubSeq(s, i, i + Len(p) - 1) = p THEN i
    ELSE Find(s, p, i + 1)

\* str.replace(old, new): every non-overlapping occurrence, scanning from the left
RECURSIVE Replace(_, _, _)
Replace(s, old, new) ==
    IF s = <<>> THEN <<>>
    ELSE IF StartsWith(s, old) THEN new \o Replace(From(s, Len(old) + 1), old, new)
    ELSE <<Head(s)>> \o Replace(Tail(s), old, new)

\* str.split(sep): the pieces between the occurrences of sep (always at least one piece)
RECURSIVE Split(_, _)
Split(s, sep) ==
    LET i == Find(s, sep, 1) IN
    IF i = 0 THEN <<s>>
    ELSE <<SubSeq(s, 1, i - 1)>> \o Split(From(s, i + Len(sep)), sep)

Blank == " "
Newline == "\n"

\* str.split(): the non-empty fields between runs of blanks
SplitFields(s) == SelectSeq(Split(s, <<Blank>>), LAMBDA f : f # <<>>)

\* str.splitlines(): the lines, a trailing newline opening no further line
SplitLines(s) ==
    LET parts == Split(s, <<Newline>>) IN
    IF parts[Len(parts)] = <<>> THEN SubSeq(parts, 1, Len(parts) - 1) ELSE parts

----------------------------------------------------------------------------
(* The admin API *)

RoutesPath == "/config/apps/http/servers/srv0/routes"
UpstreamsPath == "/reverse_proxy/upstreams"
TlsPath == "/config/apps/tls/"
DnsPath == "/config/apps/dynamic_dns/"
MetricsPath == "/metrics"
Paths == {RoutesPath, UpstreamsPath, TlsPath, DnsPath, MetricsPath}

\* as caddy_get, but the body is parsed whatever the status
caddy_get_any_status(path) == Some(admin[path])

\* caddy_get: the parsed body on a 200 answer; None on any exception (refused,
\* timed out, unparsable) and on any other status
caddy_get(path) == IF path \in failed THEN None ELSE Some(admin[path])

\* caddy_get_text: the decoded body on a 200 answer, None otherwise
caddy_get_text(path) == IF path \in failed THEN None ELSE Some(admin[path])

----------------------------------------------------------------------------
(* get_status: the health map, lines 85-94 *)

MetricName == "caddy_reverse_proxy_upstreams_healthy"
Quote == "\""
HealthPrefix == <<MetricName, "{">>
UpstreamLabel == <<"upstream", "=", Quote>>

\* the sample values float() reads, in tenths; float() raises ValueError on
\* every other field
NumericAtoms == ("0" :> 0) @@ ("0.5" :> 5) @@ ("1" :> 10) @@ ("1.0" :> 10) @@ ("2" :> 20)
Tenths(n) == 10 * n

\* float(field): None stands for ValueError
Float(field) ==
    IF Len(field) = 1 /\ field[1] \in DOMAIN NumericAtoms
    THEN Some(NumericAtoms[field[1]]) ELSE None

\* the body of the try block for one matching line: Some(<<addr, healthy>>),
\* or None when IndexError or ValueError was raised and swallowed
ParseHealthLine(line) ==
    LET byLabel == Split(line, UpstreamLabel)
        fields == SplitFields(line)
    IN  IF Len(byLabel) < 2 THEN None                       \* [1]: IndexError
        ELSE IF Len(fields) = 0 THEN None                   \* [-1]: IndexError
        ELSE LET addr == Split(byLabel[2], <<Quote>>)[1]
                 val == Float(fields[Len(fields)])
             IN  IF val = None THEN None                    \* ValueError
                 ELSE Some(<<addr, val[1] = Tenths(1)>>)

\* as HealthLoop, but a malformed matching line ends the loop
RECURSIVE HealthLoopAborts(_, _)
HealthLoopAborts(lines, m) ==
    IF lines = <<>> THEN m
    ELSE LET line == Head(lines) IN
         IF ~StartsWith(line, HealthPrefix) THEN HealthLoopAborts(Tail(lines), m)
         ELSE LET got == ParseHealthLine(line) IN
              IF got = None THEN m
              ELSE HealthLoopAborts(Tail(lines), DictPut(m, got[1][1], got[1][2]))

\* the loop over the lines, started from the map m
RECURSIVE HealthLoop(_, _)
HealthLoop(lines, m) ==
    IF lines = <<>> THEN m
    ELSE LET line == Head(lines)
             got == IF StartsWith(line, HealthPrefix) THEN ParseHealthLine(line) ELSE None
         IN  HealthLoop(Tail(lines),
                        IF got = None THEN m ELSE DictPut(m, got[1][1], got[1][2]))

ParseHealth(metrics_text) == HealthLoop(SplitLines(metrics_text), EmptyDict)

----------------------------------------------------------------------------
(* get_status: the upstream lookup, lines 96-99 *)

\* the index of the first record on which u["address"] raises KeyError, 0 if none
RECURSIVE FirstKeyError(_, _)
FirstKeyError(upstreams, i) ==
    IF i > Len(upstreams) THEN 0
    ELSE IF "address" \notin DOMAIN upstreams[i] THEN i
    ELSE FirstKeyError(upstreams, i + 1)

\* as UpstreamLoop, but the first record of an address is kept
RECURSIVE UpstreamLoopFirstWins(_, _)
UpstreamLoopFirstWins(upstreams, n) ==
    IF n = 0 THEN EmptyDict
    ELSE LET m == UpstreamLoopFirstWins(upstreams, n - 1) IN
         IF upstreams[n]["address"] \in DOMAIN m THEN m
         ELSE DictPut(m, upstreams[n]["address"], upstreams[n])

\* the loop over the first n records, all of which carry an address
RECURSIVE UpstreamLoop(_, _)
UpstreamLoop(upstreams, n) ==
    IF n = 0 THEN EmptyDict
    ELSE DictPut(UpstreamLoop(upstreams, n - 1), upstreams[n]["address"], upstreams[n])

----------------------------------------------------------------------------
(* get_status: one route, lines 103-131 *)

\* lines 104-106
RECURSIVE HostsLoop(_)
HostsLoop(matches) ==
    IF matches = <<>> THEN <<>>
    ELSE DictGet(Head(matches), "host", <<>>) \o HostsLoop(Tail(matches))

\* line 110, for the upstream entries of one handler, started from sock
RECURSIVE DialLoop(_, _)
DialLoop(ups, sock) ==
    IF ups = <<>> THEN sock
    ELSE DialLoop(Tail(ups), DictGet(Head(ups), "dial", EmptyStr))

\* lines 107-110
RECURSIVE HandleLoop(_, _)
HandleLoop(handlers, sock) ==
    IF handlers = <<>> THEN sock
    ELSE HandleLoop(Tail(handlers), DialLoop(DictGet(Head(handlers), "upstreams", <<>>), sock))

SelectSock(route) == HandleLoop(DictGet(route, "handle", <<>>), EmptyStr)

UnixSlash == <<"u", "n", "i", "x", "/">>
UnixSlashSlash == <<"u", "n", "i", "x", "/", "/">>

\* line 113
SockFile(sock) == Replace(Replace(sock, UnixSlash, <<>>), UnixSlashSlash, <<"/">>)

\* line 114
SockAddr(sock) == sock

\* line 115: os.path.exists
PathExists(path) == path \in fs

\* as Healthy, but an active verdict counts only while the socket file exists
HealthyNeedsSocket(hmap, sock_addr, sock_exists) ==
    LET healthy == DictGetOpt(hmap, sock_addr)
    IN  IF healthy = None THEN sock_exists ELSE healthy[1] /\ sock_exists

\* lines 118-121
Healthy(hmap, sock_addr, sock_exists) ==
    LET healthy == DictGetOpt(hmap, sock_addr)
    IN  IF healthy = None THEN sock_exists ELSE healthy[1]

\* lines 103-131: the record appended for one route
Service(route, hmap, umap) ==
    LET sock == SelectSock(route)
        sock_file == SockFile(sock)
        sock_addr == SockAddr(sock)
        sock_exists == PathExists(sock_file)
        upstream_info == DictGet(umap, sock_addr, EmptyDict)
    IN  [id |-> DictGet(route, "@id", "unknown"),
         hosts |-> HostsLoop(DictGet(route, "match", <<>>)),
         socket |-> sock_file,
         socket_exists |-> sock_exists,
         healthy |-> Healthy(hmap, sock_addr, sock_exists),
         requests |-> DictGet(upstream_info, "num_requests", 0),
         fails |-> DictGet(upstream_info, "fails", 0)]

----------------------------------------------------------------------------
(* get_status: TLS and dynamic DNS, lines 133-150 *)

\* as SubjectsLoop, but only the first subject of a policy, as discover_domain reads it
RECURSIVE SubjectsLoopFirstOnly(_)
SubjectsLoopFirstOnly(policies) ==
    IF policies = <<>> THEN <<>>
    ELSE LET subjects == DictGet(Head(policies), "subjects", <<>>) IN
         (IF subjects = <<>> THEN <<>> ELSE <<subjects[1]>>)
           \o SubjectsLoopFirstOnly(Tail(policies))

\* [s for p in policies for s in p.get("subjects", [])]
RECURSIVE SubjectsLoop(_)
SubjectsLoop(policies) ==
    IF policies = <<>> THEN <<>>
    ELSE DictGet(Head(policies), "subjects", <<>>) \o SubjectsLoop(Tail(policies))

\* lines 134-136
TlsDomains(tls_config) ==
    LET automate == DictGet(DictGet(tls_config, "certificates", EmptyDict), "automate", <<>>)
        policies == DictGet(DictGet(tls_config, "automation", EmptyDict), "policies", <<>>)
    IN  IF automate # <<>> THEN automate ELSE SubjectsLoop(policies)

\* lines 139-149
Dns(dyn_dns) ==
    LET dns_domains == DictGet(dyn_dns, "domains", EmptyDict)
        dns_versions == DictGet(dyn_dns, "versions", EmptyDict)
    IN  [domains |-> dns_domains,
         ipv4 |-> DictGet(dns_versions, "ipv4", FALSE),
         ipv6 |-> DictGet(dns_versions, "ipv6", FALSE)]

----------------------------------------------------------------------------
(* get_status, lines 78-150, as one step from call to return or raise *)

get_status_call ==
    /\ LET routes == PyOr(caddy_get(RoutesPath), <<>>)
           upstreams == PyOr(caddy_get(UpstreamsPath), <<>>)
           tls_config == PyOr(caddy_get(TlsPath), EmptyDict)
           dyn_dns == PyOr(caddy_get(DnsPath), EmptyDict)
           metrics_text == PyOr(caddy_get_text(MetricsPath), EmptyStr)
           hmap == ParseHealth(metrics_text)
           bad == FirstKeyError(upstreams, 1)
       IN  /\ health_map' = hmap
           /\ IF bad # 0
              THEN \* KeyError leaves get_status at line 99
                   /\ upstream_map' = UpstreamLoop(upstreams, bad - 1)
                   /\ socks' = <<>>
                   /\ result' = None
                   /\ pc' = "raised"
              ELSE LET umap == UpstreamLoop(upstreams, Len(upstreams)) IN
                   /\ upstream_map' = umap
                   /\ socks' = [i \in 1..Len(routes) |-> SelectSock(routes[i])]
                   /\ result' = Some([services |-> [i \in 1..Len(routes) |->
                                                       Service(routes[i], hmap, umap)],
                                      tls_domains |-> TlsDomains(tls_config),
                                      dns |-> Dns(dyn_dns)])
                   /\ pc' = "returned"
    /\ UNCHANGED <<admin, metric_lines, failed, fs>>

\* one poll: do_GET of /api/status, line 264
get_status ==
    /\ pc = "idle"
    /\ get_status_call
    /\ UNCHANGED lifeVars

Next == get_status

----------------------------------------------------------------------------
(* What the admin API and the filesystem may hold *)

\* all sequences over S of length at most n
SeqsUpTo(S, n) == UNION {[1..k -> S] : k \in 0..n}

\* a JSON object with exactly the given keys
Obj1(k, v) == k :> v
Obj2(k1, v1, k2, v2) == (k1 :> v1) @@ (k2 :> v2)

\* dial strings: unix//tmp/a.sock, unix//tmp/b.sock, localhost:8080
SockA == UnixSlashSlash \o <<"tmp", "/", "a.sock">>
SockB == UnixSlashSlash \o <<"tmp", "/", "b.sock">>
TcpC == <<"localhost:8080">>
FileA == <<"/", "tmp", "/", "a.sock">>

\* a route with one reverse_proxy handler and one upstream, as register_with_caddy posts it
RouteTo(id, host, dial) ==
    ("@id" :> id) @@ ("match" :> <<Obj1("host", <<host>>)>>)
      @@ ("handle" :> <<Obj2("handler", "reverse_proxy", "upstreams", <<Obj1("dial", dial)>>)>>)

\* a route that declares no upstream (a static response)
RouteStatic(id, host) ==
    ("@id" :> id) @@ ("match" :> <<Obj1("host", <<host>>)>>)
      @@ ("handle" :> <<Obj1("handler", "static_response")>>)

\* one line of the exposition format: name{label="value",...} number
RECURSIVE RenderLabels(_)
RenderLabels(labels) ==
    IF labels = <<>> THEN <<>>
    ELSE <<Head(labels).name, "=", Quote>> \o Head(labels).value \o <<Quote>>
         \o (IF Len(labels) > 1 THEN <<",">> ELSE <<>>) \o RenderLabels(Tail(labels))

\* a comment line, or a sample of the metric l.metric (a name, in atoms)
RenderLine(l) ==
    IF l.metric = <<"#">> THEN <<"#", Blank, "TYPE", Blank, MetricName, Blank, "gauge">>
    ELSE l.metric \o <<"{">> \o RenderLabels(l.labels) \o <<"}", Blank, l.value>>

RECURSIVE RenderText(_)
RenderText(lines) ==
    IF lines = <<>> THEN <<>>
    ELSE RenderLine(Head(lines)) \o <<Newline>> \o RenderText(Tail(lines))

Sample(metric, labels, value) == [metric |-> metric, labels |-> labels, value |-> value]
Label(name, value) == [name |-> name, value |-> value]
Gauge(addr, value) == Sample(<<MetricName>>, <<Label("upstream", addr)>>, value)

\* the environment drawn from the given sets, and get_status not yet called
InitEnv(RouteLists, UpstreamLists, TlsConfigs, DnsConfigs, SampleLists, FailSets, FileSets) ==
    /\ metric_lines \in SampleLists
    /\ \E r \in RouteLists, u \in UpstreamLists, t \in TlsConfigs, d \in DnsConfigs :
          admin = (RoutesPath :> r) @@ (UpstreamsPath :> u) @@ (TlsPath :> t)
                    @@ (DnsPath :> d) @@ (MetricsPath :> RenderText(metric_lines))
    /\ failed \in FailSets
    /\ fs \in FileSets
    /\ pc = "idle"
    /\ health_map = EmptyDict
    /\ upstream_map = EmptyDict
    /\ socks = <<>>
    /\ result = None

\* the state before a call of get_status from do_GET: main is in the serve loop
InitStatus(RouteLists, UpstreamLists, TlsConfigs, DnsConfigs, SampleLists, FailSets, FileSets) ==
    /\ InitEnv(RouteLists, UpstreamLists, TlsConfigs, DnsConfigs, SampleLists, FailSets, FileSets)
    /\ main_pc = "ready"
    /\ frames = <<>>
    /\ pending_sig = 0
    /\ shutdown_request = FALSE
    /\ is_shut_down = FALSE
    /\ route_registered = TRUE
    /\ sock_bound = TRUE
    /\ requests_left = 0

----------------------------------------------------------------------------
(* Specifications of get_status over the parts of its input *)

NoTls == {EmptyDict}
NoDns == {EmptyDict}
NoFailure == {{}}

Hosts == [api |-> "api.example.com", web |-> "web.example.com"]

\* routes as the mesh registers them: one handler, one upstream, or none
PlainRoutes ==
    {RouteTo("api", Hosts.api, SockA), RouteTo("web", Hosts.web, TcpC),
     RouteStatic("web", Hosts.web)}

\* health samples the proxy emits
HealthSamples == {Gauge(a, v) : a \in {SockA, TcpC}, v \in {"1", "0"}}

\* C1: routes, health samples and socket files vary
InitHealth ==
    InitStatus(SeqsUpTo(PlainRoutes, MaxRoutes), {<<>>}, NoTls, NoDns,
               SeqsUpTo(HealthSamples, MaxSamples), {{}, {MetricsPath}},
               SUBSET {FileA})
SpecHealth == InitHealth /\ [][Next]_vars

\* usage counts of an upstream record: both, none, or the request count alone
Counts == {Obj2("num_requests", 5, "fails", 1), Obj2("num_requests", 7, "fails", 2),
           EmptyDict, Obj1("num_requests", 3)}
UpstreamRecords == {Obj1("address", a) @@ c : a \in {SockA, TcpC}, c \in Counts}
\* a record without its address
BadUpstreamRecords == {Obj2("num_requests", 9, "fails", 9)}

\* C2, C7: routes and upstream records vary
InitUpstreams ==
    InitStatus(SeqsUpTo(PlainRoutes, MaxRoutes),
               SeqsUpTo(UpstreamRecords \cup BadUpstreamRecords, MaxUpstreams),
               NoTls, NoDns, {<<>>}, {{}, {UpstreamsPath}}, {{}})
SpecUpstreams == InitUpstreams /\ [][Next]_vars

\* upstream entries of a handler: with or without a dial target
Entries == {Obj1("dial", SockA), Obj1("dial", TcpC), EmptyDict}
Handlers == {Obj1("handler", "static_response")}
              \cup {Obj2("handler", "reverse_proxy", "upstreams", e) :
                      e \in SeqsUpTo(Entries, MaxEntries)}
\* a route with any of its three fields absent
WithId == {EmptyDict, Obj1("@id", "api")}
WithMatch == {EmptyDict, Obj1("match", <<Obj1("host", <<Hosts.api>>)>>)}
WithHandle == {EmptyDict} \cup {Obj1("handle", h) : h \in SeqsUpTo(Handlers, MaxHandlers)}
RichRoutes == {i @@ m @@ h : i \in WithId, m \in WithMatch, h \in WithHandle}

\* C4: the fields, handlers and upstream entries of one route vary
InitRoutes ==
    InitStatus(SeqsUpTo(RichRoutes, 1), {<<>>}, NoTls, NoDns, {<<>>}, NoFailure, {{}})
SpecRoutes == InitRoutes /\ [][Next]_vars

\* C6: the identifiers of the routes vary
IdRoutes ==
    {i @@ r : i \in {EmptyDict, Obj1("@id", "api"), Obj1("@id", "web")},
              r \in {Obj1("handle", <<Obj2("handler", "reverse_proxy",
                                          "upstreams", <<Obj1("dial", d)>>)>>) :
                       d \in {SockA, SockB}}}
InitIds ==
    InitStatus(SeqsUpTo(IdRoutes, MaxRoutes), {<<>>}, NoTls, NoDns, {<<>>}, NoFailure,
               SUBSET {FileA})
SpecIds == InitIds /\ [][Next]_vars

\* lines of a metrics text: health samples, well-formed or not, other metrics, comments
OtherLines ==
    {Sample(<<MetricName>>, <<>>, "1"),
     Sample(<<MetricName>>, <<Label("handler", <<"h">>)>>, "0"),
     Sample(<<MetricName>>, <<Label("handler", <<"h">>), Label("upstream", SockA)>>, "0"),
     Sample(<<MetricName, "_total">>, <<Label("upstream", SockA)>>, "1"),
     Sample(<<"caddy_http_requests_total">>, <<Label("upstream", TcpC)>>, "1"),
     Sample(<<"#">>, <<>>, "")}
MetricLines ==
    {Gauge(a, v) : a \in {SockA, TcpC}, v \in {"1", "0", "1.0", "abc"}} \cup OtherLines

\* C5: the metrics text varies
InitMetrics ==
    InitStatus({<<RouteTo("api", Hosts.api, SockA)>>}, {<<>>}, NoTls, NoDns,
               SeqsUpTo(MetricLines, MaxLines), NoFailure, {{}})
SpecMetrics == InitMetrics /\ [][Next]_vars

\* TLS configurations: each level present or absent
WildA == <<"*", ".", "a.dev">>
WildD == <<"*", ".", "d.dev">>
PlainB == <<"b.dev">>
PlainC == <<"c.dev">>
SubjectLists == {<<>>, <<WildA>>, <<PlainB, WildA>>}
Policies == {EmptyDict} \cup {Obj1("subjects", l) : l \in SubjectLists}
Certificates == {EmptyDict} \cup {Obj1("automate", l) : l \in {<<>>, <<PlainC>>, <<PlainC, WildD>>}}
Automation == {EmptyDict} \cup {Obj1("policies", p) : p \in SeqsUpTo(Policies, MaxPolicies)}
TlsConfigs ==
    {c @@ a : c \in {EmptyDict} \cup {Obj1("certificates", x) : x \in Certificates},
              a \in {EmptyDict} \cup {Obj1("automation", x) : x \in Automation}}

\* C8: the TLS configuration varies
InitTls ==
    InitStatus({<<>>}, {<<>>}, TlsConfigs, NoDns, {<<>>}, {{}, {TlsPath}}, {{}})
SpecTls == InitTls /\ [][Next]_vars

\* dial strings put together from pieces
Chunks == {UnixSlash, <<"/", "tmp", "/">>, <<"a.sock">>, <<"u", "n">>, <<"i", "x", "/">>, <<"/">>}
RECURSIVE Concat(_)
Concat(pieces) == IF pieces = <<>> THEN <<>> ELSE Head(pieces) \o Concat(Tail(pieces))
DialStrings == {Concat(p) : p \in SeqsUpTo(Chunks, MaxChunks)}

\* C9: the dial string of one route varies
InitSock ==
    InitStatus({<<RouteTo("api", Hosts.api, d)>> : d \in DialStrings}, {<<>>}, NoTls, NoDns,
               {<<>>}, NoFailure, SUBSET {FileA})
SpecSock == InitSock /\ [][Next]_vars

\* C3: every subset of the five fetches fails, over payloads as the proxy emits them
DnsConfigs ==
    {EmptyDict,
     Obj2("domains", Obj1("a.dev", <<"home">>), "versions", Obj1("ipv4", TRUE)),
     Obj2("domains", Obj1("a.dev", <<"home">>), "versions", Obj2("ipv4", FALSE, "ipv6", TRUE))}
InitFetch ==
    InitStatus({<<RouteTo("api", Hosts.api, SockA)>>,
                <<RouteTo("api", Hosts.api, SockA), RouteStatic("web", Hosts.web)>>},
               {<<Obj1("address", SockA) @@ Obj2("num_requests", 5, "fails", 1)>>},
               {Obj1("certificates", Obj1("automate", <<PlainC>>)),
                Obj1("automation", Obj1("policies", <<Obj1("subjects", <<WildA>>)>>))},
               DnsConfigs, {<<Gauge(SockA, "0")>>, <<Gauge(SockA, "1")>>},
               SUBSET Paths, SUBSET {FileA})
SpecFetch == InitFetch /\ [][Next]_vars

----------------------------------------------------------------------------
(* Properties of get_status *)

Max(S) == CHOOSE x \in S : \A y \in S : y <= x
Services == result[1].services

\* a source as get_status is said to see it: empty when its fetch failed
Fetched(path, empty) == IF path \in failed THEN empty ELSE admin[path]

\* the positions of the well-formed health samples of addr in the metrics text
SamplesOf(lines, addr) ==
    {k \in 1..Len(lines) :
        /\ lines[k].metric = <<MetricName>>
        /\ lines[k].value \in DOMAIN NumericAtoms
        /\ \E j \in 1..Len(lines[k].labels) :
              /\ lines[k].labels[j] = Label("upstream", addr)
              /\ \A h \in 1..(j - 1) : lines[k].labels[h].name # "upstream"}
\* the values of the upstream labels of the lines
UpstreamValues(lines) ==
    UNION {{lines[k].labels[j].value :
               j \in {h \in 1..Len(lines[k].labels) : lines[k].labels[h].name = "upstream"}} :
             k \in 1..Len(lines)}
FetchedSamples == IF MetricsPath \in failed THEN <<>> ELSE metric_lines

\* C1: the record of every route has healthy equal to the boolean of the health
\* map (the value of the last health sample of the metrics text) when the route's
\* backend string is a key of that map, whether or not the socket path exists,
\* and equal to socket_exists otherwise; healthy is always a boolean.
C1_TwoTierHealth ==
    pc = "returned" =>
      \A i \in 1..Len(Services) :
        LET s == Services[i]
            addr == socks[i]
            active == SamplesOf(FetchedSamples, addr)
        IN  /\ s.healthy \in BOOLEAN
            /\ (addr \in DOMAIN health_map) = (active # {})
            /\ addr \in DOMAIN health_map =>
                 /\ s.healthy = health_map[addr]
                 /\ s.healthy = (FetchedSamples[Max(active)].value \in {"1", "1.0"})
            /\ addr \notin DOMAIN health_map => s.healthy = s.socket_exists

\* both overriding rows of the policy table in one result: (active true, path
\* absent) gives true and (active false, path present) gives false
C1_Witness ==
    /\ pc = "returned"
    /\ \E i, j \in 1..Len(Services) :
          /\ socks[i] \in DOMAIN health_map /\ health_map[socks[i]]
          /\ ~Services[i].socket_exists /\ Services[i].healthy
          /\ socks[j] \in DOMAIN health_map /\ ~health_map[socks[j]]
          /\ Services[j].socket_exists /\ ~Services[j].healthy

\* C2: get_status never raises, whatever sub-field an entry of the routes or the
\* upstreams list lacks: it returns one record per route.
C2_NeverRaises ==
    pc # "idle" => pc = "returned" /\ Len(Services) = Len(Fetched(RoutesPath, <<>>))

\* C3: whichever of the five fetches fail, get_status returns, and its result is
\* the one computed from the failed sources taken as empty and the others as
\* served; when all five fail it is the empty status.
C3_FailedFetchesAreEmpty ==
    pc # "idle" =>
      /\ pc = "returned"
      /\ LET routes == Fetched(RoutesPath, <<>>)
             upstreams == Fetched(UpstreamsPath, <<>>)
             hmap == ParseHealth(Fetched(MetricsPath, EmptyStr))
             umap == UpstreamLoop(upstreams, Len(upstreams))
         IN  result[1] = [services |-> [i \in 1..Len(routes) |-> Service(routes[i], hmap, umap)],
                          tls_domains |-> TlsDomains(Fetched(TlsPath, EmptyDict)),
                          dns |-> Dns(Fetched(DnsPath, EmptyDict))]
      /\ failed = Paths =>
           result[1] = [services |-> <<>>, tls_domains |-> <<>>,
                        dns |-> [domains |-> EmptyDict, ipv4 |-> FALSE, ipv6 |-> FALSE]]
      /\ RoutesPath \in failed => Services = <<>>
      /\ TlsPath \in failed => result[1].tls_domains = <<>>
      /\ DnsPath \in failed => result[1].dns = [domains |-> EmptyDict, ipv4 |-> FALSE, ipv6 |-> FALSE]
      /\ UpstreamsPath \in failed => \A i \in 1..Len(Services) : Services[i].requests = 0
      /\ MetricsPath \in failed =>
           \A i \in 1..Len(Services) : Services[i].healthy = Services[i].socket_exists

\* the TLS and metrics fetches failed and the other three did not: the services
\* are listed, inferred from the socket file, and no TLS domain is
C3_Witness ==
    /\ pc = "returned"
    /\ failed = {TlsPath, MetricsPath}
    /\ Len(Services) = 2
    /\ Services[1].requests = 5
    /\ Services[1].healthy /\ Services[1].socket_exists
    /\ result[1].tls_domains = <<>>
    /\ result[1].dns.ipv6

\* the dial targets a route declares, in scanning order
RECURSIVE DialTargets(_)
DialTargets(entries) ==
    IF entries = <<>> THEN <<>>
    ELSE (IF "dial" \in DOMAIN Head(entries) THEN <<Head(entries)["dial"]>> ELSE <<>>)
           \o DialTargets(Tail(entries))
RECURSIVE AllEntries(_)
AllEntries(handlers) ==
    IF handlers = <<>> THEN <<>>
    ELSE (IF "upstreams" \in DOMAIN Head(handlers) THEN Head(handlers)["upstreams"] ELSE <<>>)
           \o AllEntries(Tail(handlers))
RouteTargets(route) ==
    DialTargets(AllEntries(IF "handle" \in DOMAIN route THEN route["handle"] ELSE <<>>))

\* C4: the selected backend of every route is the last dial target among all the
\* upstream entries of all its handlers, and the empty string only when the
\* route declares no dial target; an entry or handler without a dial target
\* erases nothing.
C4_LastDialTarget ==
    pc = "returned" =>
      \A i \in 1..Len(socks) :
        LET targets == RouteTargets(Fetched(RoutesPath, <<>>)[i])
        IN  socks[i] = IF targets = <<>> THEN EmptyStr ELSE targets[Len(targets)]

\* C5: the health map has exactly one entry per upstream label value of the
\* well-formed lines of the health metric, true iff the value of the last such
\* line of that address is 1; other metrics, comments and malformed matching
\* lines add nothing and stop nothing.
C5_HealthMapOfLastSamples ==
    pc = "returned" =>
      /\ DOMAIN health_map =
           {a \in UpstreamValues(FetchedSamples) : SamplesOf(FetchedSamples, a) # {}}
      /\ \A a \in DOMAIN health_map :
            health_map[a] = (FetchedSamples[Max(SamplesOf(FetchedSamples, a))].value \in {"1", "1.0"})

\* a healthy sample, then a malformed line of the same metric, then an
\* unhealthy sample of the same address: the entry is the last one's
C5_Witness ==
    /\ pc = "returned"
    /\ Len(metric_lines) = 3
    /\ metric_lines[1] = Gauge(SockA, "1")
    /\ metric_lines[2] = Gauge(SockA, "abc")
    /\ metric_lines[3] = Gauge(SockA, "0")
    /\ health_map = (SockA :> FALSE)

\* C6: no two records of the services list have the same id.
C6_UniqueIds ==
    pc = "returned" =>
      \A i, j \in 1..Len(Services) : i # j => Services[i].id # Services[j].id

\* C7: requests and fails of every record are num_requests and fails of the last
\* fetched upstream record whose address is the route's backend string, and 0
\* when there is no such record or it lacks the count.
C7_CountsOfLastRecord ==
    pc = "returned" =>
      \A i \in 1..Len(Services) :
        LET upstreams == Fetched(UpstreamsPath, <<>>)
            hits == {k \in 1..Len(upstreams) : upstreams[k]["address"] = socks[i]}
            has(k) == IF hits = {} THEN FALSE ELSE k \in DOMAIN upstreams[Max(hits)]
        IN  /\ Services[i].requests =
                 IF has("num_requests") THEN upstreams[Max(hits)]["num_requests"] ELSE 0
            /\ Services[i].fails = IF has("fails") THEN upstreams[Max(hits)]["fails"] ELSE 0

\* two records of one address with different counts, and a route to that
\* address: the record shows the second one's counts
C7_Witness ==
    /\ pc = "returned"
    /\ UpstreamsPath \notin failed
    /\ Len(admin[UpstreamsPath]) = 2
    /\ admin[UpstreamsPath][1] = Obj1("address", SockA) @@ Obj2("num_requests", 5, "fails", 1)
    /\ admin[UpstreamsPath][2] = Obj1("address", SockA) @@ Obj2("num_requests", 7, "fails", 2)
    /\ \E i \in 1..Len(Services) :
          socks[i] = SockA /\ Services[i].requests = 7 /\ Services[i].fails = 2

\* the subjects of the policies that declare some, in policy order
RECURSIVE SubjectsUpTo(_, _)
SubjectsUpTo(policies, n) ==
    IF n = 0 THEN <<>>
    ELSE SubjectsUpTo(policies, n - 1)
           \o (IF "subjects" \in DOMAIN policies[n] THEN policies[n]["subjects"] ELSE <<>>)

\* C8: tls_domains is the certificates.automate list when that is present and
\* not empty, and otherwise the subjects of all automation policies in order.
C8_TlsDomains ==
    pc = "returned" =>
      LET tls == Fetched(TlsPath, EmptyDict)
          certs == IF "certificates" \in DOMAIN tls THEN tls["certificates"] ELSE EmptyDict
          auto == IF "automation" \in DOMAIN tls THEN tls["automation"] ELSE EmptyDict
          policies == IF "policies" \in DOMAIN auto THEN auto["policies"] ELSE <<>>
      IN  IF "automate" \in DOMAIN certs /\ certs["automate"] # <<>>
          THEN result[1].tls_domains = certs["automate"]
          ELSE result[1].tls_domains = SubjectsUpTo(policies, Len(policies))

\* an automate list that is present and empty, a policy without subjects and a
\* policy with two: the two subjects are the domains
C8_Witness ==
    /\ pc = "returned"
    /\ TlsPath \notin failed
    /\ admin[TlsPath] = Obj2("certificates", Obj1("automate", <<>>),
                             "automation", Obj1("policies",
                                  <<EmptyDict, Obj1("subjects", <<PlainB, WildA>>)>>))
    /\ result[1].tls_domains = <<PlainB, WildA>>

\* C9: the socket of every record is the backend string with only a leading
\* unix/ removed: unix/ followed by an absolute path P gives P, a string
\* without that prefix is unchanged, and unix/ further inside is preserved.
C9_PrefixRewriteOnly ==
    pc = "returned" =>
      \A i \in 1..Len(Services) :
        /\ StartsWith(socks[i], UnixSlashSlash) =>
             Services[i].socket = From(socks[i], Len(UnixSlash) + 1)
        /\ ~StartsWith(socks[i], UnixSlash) => Services[i].socket = socks[i]

----------------------------------------------------------------------------
(* main, lines 293-316, the serve loop of the standard library's            *)
(* socketserver.BaseServer it enters at line 316, and the signal handler   *)
(* shutdown(sig, frame), lines 303-309, which runs in the main thread on    *)
(* top of whatever main was executing.                                      *)

Alive == main_pc \notin {"exited", "crashed"}
InServeForever == main_pc \in {"loop", "ready", "timeout", "service"}
MainRuns == Alive /\ frames = <<>>

\* [p["subjects"][0] for p in policies if p.get("subjects")], line 39
RECURSIVE FirstSubjects(_)
FirstSubjects(policies) ==
    IF policies = <<>> THEN <<>>
    ELSE (IF DictGet(Head(policies), "subjects", <<>>) # <<>>
          THEN <<Head(policies)["subjects"][1]>> ELSE <<>>) \o FirstSubjects(Tail(policies))

\* lines 40-43: the first subject that starts with "*.", without these two characters
RECURSIVE FirstWildcard(_)
FirstWildcard(subjects) ==
    IF subjects = <<>> THEN None
    ELSE IF StartsWith(Head(subjects), <<"*", ".">>)
         THEN Some(From(Head(subjects), Len(<<"*", ".">>) + 1))
    ELSE FirstWildcard(Tail(subjects))

\* lines 34-43
discover_domain ==
    LET tls == caddy_get(TlsPath) IN
    IF Len(tls) = 0 \/ DOMAIN tls[1] = {} THEN None
    ELSE LET automate == DictGet(DictGet(tls[1], "certificates", EmptyDict), "automate", <<>>)
             policies == DictGet(DictGet(tls[1], "automation", EmptyDict), "policies", <<>>)
         IN  FirstWildcard(IF automate # <<>> THEN automate ELSE FirstSubjects(policies))

\* the finally clause of serve_forever
ServeFinally ==
    /\ shutdown_request' = FALSE
    /\ is_shut_down' = TRUE

\* lines 294-297
main_discover ==
    /\ MainRuns /\ main_pc = "discover"
    /\ main_pc' = IF discover_domain = None THEN "exited" ELSE "bind"
    /\ UNCHANGED <<statusVars, frames, pending_sig, shutdown_request, is_shut_down,
                   route_registered, sock_bound, requests_left>>

\* line 301 and server_bind, lines 285-290
main_bind ==
    /\ MainRuns /\ main_pc = "bind"
    /\ sock_bound' = TRUE
    /\ main_pc' = "install"
    /\ UNCHANGED <<statusVars, frames, pending_sig, shutdown_request, is_shut_down,
                   route_registered, requests_left>>

\* lines 311-312
main_install ==
    /\ MainRuns /\ main_pc = "install"
    /\ main_pc' = "register"
    /\ UNCHANGED <<statusVars, frames, pending_sig, shutdown_request, is_shut_down,
                   route_registered, sock_bound, requests_left>>

\* lines 314-315 and register_with_caddy, lines 46-67: the POST raises when the
\* proxy does not take it, and nothing catches that
main_register ==
    /\ MainRuns /\ main_pc = "register"
    /\ \E posted \in BOOLEAN :
          /\ route_registered' = posted
          /\ main_pc' = IF posted THEN "serve_forever" ELSE "crashed"
    /\ UNCHANGED <<statusVars, frames, pending_sig, shutdown_request, is_shut_down,
                   sock_bound, requests_left>>

\* serve_forever: self.__is_shut_down.clear()
serve_enter ==
    /\ MainRuns /\ main_pc = "serve_forever"
    /\ is_shut_down' = FALSE
    /\ main_pc' = "loop"
    /\ UNCHANGED <<statusVars, frames, pending_sig, shutdown_request,
                   route_registered, sock_bound, requests_left>>

\* serve_forever: while not self.__shutdown_request: ready = selector.select(...)
serve_select ==
    /\ MainRuns /\ main_pc = "loop"
    /\ IF shutdown_request
       THEN ServeFinally /\ main_pc' = "exited"
       ELSE /\ \E ready \in (IF requests_left > 0 THEN BOOLEAN ELSE {FALSE}) :
                  main_pc' = IF ready THEN "ready" ELSE "timeout"
            /\ UNCHANGED <<shutdown_request, is_shut_down>>
    /\ UNCHANGED <<statusVars, frames, pending_sig, route_registered, sock_bound, requests_left>>

\* serve_forever: if self.__shutdown_request: break, with nothing ready
serve_timeout ==
    /\ MainRuns /\ main_pc = "timeout"
    /\ IF shutdown_request
       THEN ServeFinally /\ main_pc' = "exited"
       ELSE main_pc' = "service" /\ UNCHANGED <<shutdown_request, is_shut_down>>
    /\ UNCHANGED <<statusVars, frames, pending_sig, route_registered, sock_bound, requests_left>>

\* serve_forever: _handle_request_noblock, that is do_GET, lines 262-276; an
\* exception of get_status is caught by the server's handle_error
do_GET ==
    /\ MainRuns /\ main_pc = "ready" /\ requests_left > 0
    /\ IF shutdown_request
       THEN /\ ServeFinally /\ main_pc' = "exited"
            /\ UNCHANGED <<statusVars, requests_left>>
       ELSE /\ \E path \in {"/api/status", "/"} :
                  IF path = "/api/status" THEN get_status_call ELSE UNCHANGED statusVars
            /\ requests_left' = requests_left - 1
            /\ main_pc' = "service"
            /\ UNCHANGED <<shutdown_request, is_shut_down>>
    /\ UNCHANGED <<frames, pending_sig, route_registered, sock_bound>>

\* serve_forever: self.service_actions()
serve_service_actions ==
    /\ MainRuns /\ main_pc = "service"
    /\ main_pc' = "loop"
    /\ UNCHANGED <<statusVars, frames, pending_sig, shutdown_request, is_shut_down,
                   route_registered, sock_bound, requests_left>>

\* SIGTERM or SIGINT is delivered to the process once the handlers are installed
signal_arrives ==
    /\ main_pc \in {"register", "serve_forever"} \/ InServeForever
    /\ pending_sig + Len(frames) < MaxSignals
    /\ pending_sig' = pending_sig + 1
    /\ UNCHANGED <<statusVars, main_pc, frames, shutdown_request, is_shut_down,
                   route_registered, sock_bound, requests_left>>

\* the interpreter calls shutdown(sig, frame) in the main thread; line 304
shutdown_enter ==
    /\ Alive /\ pending_sig > 0
    /\ pending_sig' = pending_sig - 1
    /\ frames' = Append(frames, "deregister")
    /\ UNCHANGED <<statusVars, main_pc, shutdown_request, is_shut_down,
                   route_registered, sock_bound, requests_left>>

\* the innermost handler moves on to at
HandlerAt(at) == frames' = [frames EXCEPT ![Len(frames)] = at]

\* one step of the innermost running handler, lines 305-309
shutdown ==
    /\ Alive /\ frames # <<>>
    /\ LET at == frames[Len(frames)] IN
       IF at = "deregister"
       THEN \* line 305 and deregister_from_caddy, lines 70-75: a failure is swallowed
            /\ \E deleted \in BOOLEAN : route_registered' = (route_registered /\ ~deleted)
            /\ HandlerAt("server.shutdown")
            /\ UNCHANGED <<main_pc, shutdown_request, is_shut_down, sock_bound>>
       ELSE IF at = "server.shutdown"
       THEN \* line 306, BaseServer.shutdown: self.__shutdown_request = True
            /\ shutdown_request' = TRUE
            /\ HandlerAt("wait")
            /\ UNCHANGED <<main_pc, is_shut_down, route_registered, sock_bound>>
       ELSE IF at = "wait"
       THEN \* line 306, BaseServer.shutdown: self.__is_shut_down.wait()
            /\ is_shut_down
            /\ HandlerAt("unlink")
            /\ UNCHANGED <<main_pc, shutdown_request, is_shut_down, route_registered, sock_bound>>
       ELSE IF at = "unlink"
       THEN \* lines 307-308
            /\ sock_bound' = FALSE
            /\ HandlerAt("exit")
            /\ UNCHANGED <<main_pc, shutdown_request, is_shut_down, route_registered>>
       ELSE \* line 309: SystemExit unwinds every frame, through serve_forever's finally
            /\ IF InServeForever THEN ServeFinally
               ELSE UNCHANGED <<shutdown_request, is_shut_down>>
            /\ frames' = <<>>
            /\ main_pc' = "exited"
            /\ UNCHANGED <<route_registered, sock_bound>>
    /\ UNCHANGED <<statusVars, pending_sig, requests_left>>

MainThread ==
    \/ main_discover
    \/ main_bind
    \/ main_install
    \/ main_register
    \/ serve_enter
    \/ serve_select
    \/ serve_timeout
    \/ do_GET
    \/ serve_service_actions

NextMain == MainThread \/ signal_arrives \/ shutdown_enter \/ shutdown

\* main starts: a stale route or socket file of an earlier run may be there
InitMain ==
    /\ InitEnv({<<RouteTo("api", Hosts.api, SockA)>>},
               {<<Obj1("address", SockA) @@ Obj2("num_requests", 5, "fails", 1)>>, <<EmptyDict>>},
               {Obj1("certificates", Obj1("automate", <<PlainC, WildD>>)),
                Obj1("automation", Obj1("policies", <<Obj1("subjects", <<PlainB>>)>>))},
               NoDns, {<<Gauge(SockA, "1")>>}, {{}, Paths}, {{FileA}})
    /\ main_pc = "discover"
    /\ frames = <<>>
    /\ pending_sig = 0
    /\ shutdown_request = FALSE
    /\ is_shut_down = FALSE
    /\ route_registered \in BOOLEAN
    /\ sock_bound \in BOOLEAN
    /\ requests_left \in 0..MaxRequests

\* the main thread is never starved: it keeps executing main, and a delivered
\* signal's handler is called and keeps running
SpecMain ==
    /\ InitMain /\ [][NextMain]_vars
    /\ WF_vars(MainThread) /\ WF_vars(shutdown_enter) /\ WF_vars(shutdown)

\* C10: a SIGTERM or SIGINT delivered while main is inside serve_forever leads
\* to the handler running to completion: server.shutdown() returns, the socket
\* file is removed and the process exits.
C10_ShutdownCompletes ==
    (InServeForever /\ pending_sig > 0) ~> (main_pc = "exited" /\ ~sock_bound)

====
